---- MODULE Spec2Model ----
(***************************************************************************)
(* The per-tile symbol layout pass of src/src/symbol/symbol_layout.js      *)
(* (performSymbolLayout, addFeature, addTextVertices, addSymbol,           *)
(* anchorIsTooClose) as a state machine over one symbol bucket, and the    *)
(* collision debug renderer of src/unnamed/part_000 (drawCollisionDebug,   *)
(* createQuadTriangles) as a state machine over the frames it draws.       *)
(*                                                                         *)
(* Numbers: coordinates are integers in tile units; sizes are kept in      *)
(* tenths (text-size 255.9 is 2559) so that the code's comparison of the   *)
(* packed size with MAX_PACKED_SIZE is exact; textRepeatDistance is kept   *)
(* as symbolMinDistance (twice its value) and compared by squares.         *)
(* Array indices are 0-based as in the code: entry k of a JS array is      *)
(* element k + 1 of the sequence that models it.                           *)
(***************************************************************************)
EXTENDS Integers, Sequences, FiniteSets, TLC

VARIABLES
    bucket,                 \* the SymbolBucket: inputs and the arrays the pass writes
    pc,                     \* "idle" | "features": position of performSymbolLayout
    glyphMap,               \* argument of the running pass: texts the glyph map can shape
    imageMap,               \* argument of the running pass: icon name -> StyleImage
    showCollisionBoxes,     \* argument of the running pass
    i,                      \* position of the loop over bucket.features (1-based)
    shapedTextOrientations, \* of the feature being laid out
    shapedIcon,             \* of the feature being laid out (0 or 1 element)
    anchors,                \* the (line, anchor) pairs addFeature has still to visit
    branch,                 \* the branch of addFeature taken for the current feature
    warnings,               \* the messages handed to warnOnce, in order
    offered,                \* history: the anchors visited in the running pass
    runs,                   \* history: one record per completed pass
    quadTriangles,          \* part_000, line 32: the shared quad index array (0 or 1 element)
    dpc,                    \* "idle" | "circles": position of drawCollisionDebug
    frame                   \* the locals of the running or last drawCollisionDebug call

layoutVars == <<bucket, pc, glyphMap, imageMap, showCollisionBoxes, i,
                shapedTextOrientations, shapedIcon, anchors, branch, warnings,
                offered, runs>>

drawVars == <<quadTriangles, dpc, frame>>

vars == <<bucket, pc, glyphMap, imageMap, showCollisionBoxes, i,
          shapedTextOrientations, shapedIcon, anchors, branch, warnings,
          offered, runs, quadTriangles, dpc, frame>>

(***************************************************************************)
(* Bounds of the model.                                                    *)
(***************************************************************************)
MaxFeatures == 2
MaxPasses == 2
\* the length of the longest label: a third of the glyph ceiling
LongGlyphs == 21845
\* the most tile coordinates handed to one drawCollisionDebug call
MaxTiles == 3

(***************************************************************************)
(* Program constants.                                                      *)
(***************************************************************************)
EXTENT == 8192
MAX_PACKED_SIZE == 65535
SIZE_PACK_FACTOR == 256
MAX_GLYPHS == 65535
TileSizeBase == 512
PolePrecision == 16
SizeUnit == 10

WritingMode == [horizontal |-> 1, vertical |-> 2, horizontalOnly |-> 3]

(***************************************************************************)
(* Geometry values.                                                        *)
(***************************************************************************)
Pt(x, y) == [x |-> x, y |-> y]

Anchor(x, y, angle) == [x |-> x, y |-> y, angle |-> angle]

RECURSIVE Flatten(_)
Flatten(ss) == IF ss = <<>> THEN <<>> ELSE Head(ss) \o Flatten(Tail(ss))

RECURSIVE SelectIdx(_, _, _)
\* the indices k in lo..Len(s) with keep[k], in order
SelectIdx(keep, lo, hi) ==
    IF lo > hi THEN <<>>
    ELSE (IF keep[lo] THEN <<lo>> ELSE <<>>) \o SelectIdx(keep, lo + 1, hi)

Min2(a, b) == IF a < b THEN a ELSE b
Max2(a, b) == IF a > b THEN a ELSE b

\* Point.dist(other) < d / 2, for d >= 0, on integer coordinates
DistLessThanHalf(a, b, d) ==
    4 * ((a.x - b.x) * (a.x - b.x) + (a.y - b.y) * (a.y - b.y)) < d * d

(***************************************************************************)
(* Collaborators of the layout pass whose code lies outside the excerpt:   *)
(* text and icon shaping, script detection, hashing, ring classification,  *)
(* pole of inaccessibility, line clipping and anchor generation, quads,    *)
(* collision features and the bucket's sinks.                              *)
(***************************************************************************)
NoText == ""
NoIcon == ""
TextA == "A"
TextElm == "Elm"
TextWen == "wen"        \* stands for the one-ideograph label U+6587
TextLong == "long"      \* stands for the label of LongGlyphs letters B
Texts == {TextA, TextElm, TextWen, TextLong}
Icons == {"i1", "i2"}

\* script_detection.allowsVerticalWritingMode: true of ideographic text
allowsVerticalWritingMode(text) == text = TextWen

\* the number of glyphs the shaper positions for a text
NumGlyphs(text) ==
    CASE text = TextElm -> 3
      [] text = TextLong -> LongGlyphs
      [] OTHER -> 1

\* shaping.shapeText: a Shaping, or nothing when no glyph of the text is in
\* the glyph map
shapeText(text, gm, writingMode) ==
    IF text \in gm
    THEN <<[text |-> text, writingMode |-> writingMode, glyphs |-> NumGlyphs(text)]>>
    ELSE <<>>

\* shaping.shapeIcon
shapeIcon(icon, image) == <<[image |-> icon, sdf |-> image.sdf]>>

\* murmurhash-js murmur3 (seed 0) of the texts of the model
murmur3(text) ==
    CASE text = "" -> 0
      [] text = TextA -> 1423767502
      [] text = TextElm -> 194353184
      [] text = TextWen -> 1697460207
      [] text = TextLong -> 1871559771

\* quads.getGlyphQuads / getIconQuads: the number of quads returned
getGlyphQuads(shapedText) == shapedText.glyphs
getIconQuads(icon) == 1

\* util.warnOnce: the diagnostic side-channel, as the list of messages raised
warnOnce(log, message) == Append(log, message)

RECURSIVE SignedAreaFrom(_, _)
SignedAreaFrom(ring, k) ==
    IF k > Len(ring) THEN 0
    ELSE LET p1 == ring[k]
             p2 == ring[IF k = 1 THEN Len(ring) ELSE k - 1]
         IN (p2.x - p1.x) * (p1.y + p2.y) + SignedAreaFrom(ring, k + 1)

\* util.calculateSignedArea
calculateSignedArea(ring) == SignedAreaFrom(ring, 1)

RECURSIVE ClassifyFrom(_, _, _, _, _)
\* polygon and ccw are 0- or 1-element sequences (undefined or a value)
ClassifyFrom(rings, k, polygons, polygon, ccw) ==
    IF k > Len(rings)
    THEN polygons \o polygon
    ELSE LET area == calculateSignedArea(rings[k])
             dir == IF ccw = <<>> THEN area < 0 ELSE ccw[1]
         IN IF area = 0 THEN ClassifyFrom(rings, k + 1, polygons, polygon, ccw)
            ELSE IF dir = (area < 0)
                 THEN ClassifyFrom(rings, k + 1, polygons \o polygon,
                                   <<<<rings[k]>>>>, <<dir>>)
                 ELSE ClassifyFrom(rings, k + 1, polygons,
                                   <<Append(polygon[1], rings[k])>>, <<dir>>)

\* util.classifyRings(rings, 0): the rings grouped into polygons, an exterior
\* ring followed by its holes
classifyRings(rings) ==
    IF Len(rings) <= 1 THEN <<rings>>
    ELSE ClassifyFrom(rings, 1, <<>>, <<>>, <<>>)

RECURSIVE BBox(_, _)
BBox(ring, k) ==
    IF k = 1
    THEN [minX |-> ring[1].x, maxX |-> ring[1].x, minY |-> ring[1].y, maxY |-> ring[1].y]
    ELSE LET b == BBox(ring, k - 1)
         IN [minX |-> Min2(b.minX, ring[k].x), maxX |-> Max2(b.maxX, ring[k].x),
             minY |-> Min2(b.minY, ring[k].y), maxY |-> Max2(b.maxY, ring[k].y)]

\* util.findPoleOfInaccessibility(polygon, precision) on the polygons of the
\* model, axis-parallel rectangles whose holes stay clear of the centre: the
\* centre of the exterior ring, which the search returns at any precision;
\* (minX, minY) for a ring without extent.
findPoleOfInaccessibility(polygon, precision) ==
    LET b == BBox(polygon[1], Len(polygon[1]))
    IN IF Min2(b.maxX - b.minX, b.maxY - b.minY) = 0
       THEN Pt(b.minX, b.minY)
       ELSE Pt((b.minX + b.maxX) \div 2, (b.minY + b.maxY) \div 2)

\* clip_line.clipLine(feature.geometry, 0, 0, EXTENT, EXTENT) and
\* get_anchors.getAnchors on each clipped line: pure functions of the feature
\* and the style, given with the feature
clipLine(feature) == [k \in 1..Len(feature.clipped) |-> feature.clipped[k].line]
getAnchors(feature, k) == feature.clipped[k].anchors

\* get_anchors.getCenterAnchor on line k of the geometry: an anchor or none
getCenterAnchor(feature, k) == feature.center[k]

\* new CollisionFeature(collisionBoxArray, line, anchor, ...): appends the
\* boxes of one label to the store and keeps their range.  One box for a
\* label that is not aligned to its line, one per line vertex otherwise.
CollisionFeature(collisionBoxArray, line, anchor, featureIndex, sourceLayerIndex, bucketIndex, shaped, alignLine) ==
    LET n == IF alignLine THEN Len(line) ELSE 1
        box == [anchorX |-> anchor.x, anchorY |-> anchor.y,
                featureIndex |-> featureIndex,
                sourceLayerIndex |-> sourceLayerIndex,
                bucketIndex |-> bucketIndex, shaped |-> shaped]
    IN [collisionBoxArray |-> collisionBoxArray \o [k \in 1..n |-> box],
        boxStartIndex |-> Len(collisionBoxArray),
        boxEndIndex |-> Len(collisionBoxArray) + n]

\* SymbolBucket.addToLineVertexArray(anchor, line)
addToLineVertexArray(b, anchor, line) ==
    [bucket |-> [b EXCEPT !.lineVertexArray = @ \o line],
     lineStartIndex |-> Len(b.lineVertexArray),
     lineLength |-> Len(line)]

\* SymbolBucket.addSymbols(arrays, quads, sizeData, ..., writingMode, anchor,
\* lineStartIndex, lineLength): four vertices and one glyph offset per quad,
\* one placed-symbol record per call
addSymbols(b, target, quads, sizeData, writingMode, anchor, lineArray) ==
    LET placed == [anchorX |-> anchor.x, anchorY |-> anchor.y, numGlyphs |-> quads,
                   sizeData |-> sizeData, writingMode |-> writingMode,
                   lineStartIndex |-> lineArray.lineStartIndex,
                   lineLength |-> lineArray.lineLength]
        grown == [placedSymbolArray |-> Append(b[target].placedSymbolArray, placed),
                  vertices |-> b[target].vertices + 4 * quads]
    IN [b EXCEPT ![target] = grown,
                 !.glyphOffsetArrayLength = @ + quads]

\* SymbolBucket.createArrays(): fresh text and icon buffers, glyph offsets
\* and line vertices; the collision-box store belongs to the tile and stays
createArrays(b) ==
    [b EXCEPT !.text = [placedSymbolArray |-> <<>>, vertices |-> 0],
              !.icon = [placedSymbolArray |-> <<>>, vertices |-> 0],
              !.glyphOffsetArrayLength = 0,
              !.lineVertexArray = <<>>,
              !.collisionDebugBuffers = FALSE]

\* SymbolBucket.generateCollisionDebugBuffers()
generateCollisionDebugBuffers(b) == [b EXCEPT !.collisionDebugBuffers = TRUE]

(***************************************************************************)
(* Inputs: the features of the bucket, the style of its layer and the      *)
(* glyph and image maps handed to a pass.                                  *)
(***************************************************************************)
Size(z, lo, hi) == [z |-> z, lo |-> lo, hi |-> hi]

\* text-size and icon-size in tenths: at the bucket's zoom, and at the two
\* zooms that bracket it for a composite function
Feature(type, geometry, text, icon, textSize, clipped, center) ==
    [index |-> 0, sourceLayerIndex |-> 0, type |-> type, geometry |-> geometry,
     text |-> text, icon |-> icon, textSize |-> textSize,
     iconSize |-> Size(10, 10, 10), clipped |-> clipped, center |-> center]

Clipped(line, as) == [line |-> line, anchors |-> as]

\* two points of which one lies right of the tile, and one above it
FeaturePointText ==
    Feature("Point", << <<Pt(10, 10), Pt(EXTENT, 10)>>, <<Pt(10, -1)>> >>,
            TextA, NoIcon, Size(160, 160, 160), <<>>, << <<>>, <<>> >>)

\* an icon without text: the last point inside, one left of and one below the tile
FeaturePointIcon ==
    Feature("Point", << <<Pt(EXTENT - 1, EXTENT - 1), Pt(-1, 0), Pt(0, EXTENT)>> >>,
            NoText, "i1", Size(160, 160, 160), <<>>, << <<>> >>)

\* a road with text and icon; along the line the anchors are 4, 8 and 2990
\* units from the first
FeatureLineBoth ==
    Feature("LineString", << <<Pt(10, 10), Pt(4000, 10)>>, <<Pt(3000, 20)>> >>,
            TextA, "i2", Size(2560, 2560, 3000),
            << Clipped(<<Pt(10, 10), Pt(4000, 10)>>,
                       <<Anchor(10, 10, 0), Anchor(14, 10, 0), Anchor(18, 10, 0),
                         Anchor(3000, 10, 0)>>) >>,
            << <<Anchor(2005, 10, 0)>>, <<>> >>)

\* a line that leaves the tile: its first anchor lies on the tile's right
\* edge, the second two units inside it
FeatureLineVertical ==
    Feature("LineString", << <<Pt(18, 10), Pt(EXTENT, 10)>> >>,
            TextWen, NoIcon, Size(2559, 2559, 2560),
            << Clipped(<<Pt(18, 10), Pt(EXTENT, 10)>>,
                       <<Anchor(EXTENT, 10, 0), Anchor(EXTENT - 2, 10, 0),
                         Anchor(18, 10, 1)>>) >>,
            << <<Anchor(4105, 10, 0)>> >>)

\* a second road named like the first, its anchors 2 and about 2000 units
\* from anchors of the first
FeatureLineSameText ==
    Feature("LineString", << <<Pt(12, 10), Pt(3000, 2010)>> >>,
            TextA, NoIcon, Size(160, 160, 160),
            << Clipped(<<Pt(12, 10), Pt(3000, 2010)>>,
                       <<Anchor(12, 10, 1), Anchor(3000, 2010, 1)>>) >>,
            << <<Anchor(1506, 1010, 1)>> >>)

\* two squares, the first with a hole in a corner, and a ring without area
FeaturePolygon ==
    Feature("Polygon",
            << <<Pt(0, 0), Pt(64, 0), Pt(64, 64), Pt(0, 64), Pt(0, 0)>>,
               <<Pt(2, 2), Pt(2, 6), Pt(6, 6), Pt(6, 2), Pt(2, 2)>>,
               <<Pt(7, 7), Pt(9, 9), Pt(7, 7)>>,
               <<Pt(100, 100), Pt(200, 100), Pt(200, 200), Pt(100, 200), Pt(100, 100)>> >>,
            TextElm, "i1", Size(160, 160, 2560),
            << Clipped(<<Pt(0, 0), Pt(64, 0), Pt(64, 64), Pt(0, 64), Pt(0, 0)>>,
                       <<Anchor(32, 0, 0), Anchor(64, 32, 1)>>),
               Clipped(<<Pt(100, 100), Pt(200, 100)>>, <<>>) >>,
            << <<Anchor(64, 64, 0)>>, <<>>, <<>>, <<Anchor(200, 200, 0)>> >>)

\* three points inside the tile, each labelled with the longest label
FeaturePointLong ==
    Feature("Point", << <<Pt(20, 20), Pt(30, 30), Pt(40, 40)>> >>,
            TextLong, NoIcon, Size(160, 160, 160), <<>>, << <<>> >>)

FeaturePool == {FeaturePointText, FeaturePointIcon, FeatureLineBoth,
                FeatureLineVertical, FeatureLineSameText, FeaturePolygon,
                FeaturePointLong}

\* the feature lists a bucket can hold; a feature's index is its place
FeatureLists ==
    UNION {[1..n -> FeaturePool] : n \in 0..MaxFeatures}

WithIndex(fs) == [k \in 1..Len(fs) |-> [fs[k] EXCEPT !.index = k]]

\* layout properties of the layer and the size functions of the bucket
Style(placement, textAlign, iconAlign, upright, spacing, iconRotate, overscaling, textFn, iconFn) ==
    [symbolPlacement |-> placement, textRotationAlignment |-> textAlign,
     iconRotationAlignment |-> iconAlign, textKeepUpright |-> upright,
     symbolSpacing |-> spacing, iconRotate |-> iconRotate,
     overscaling |-> overscaling, textFunctionType |-> textFn,
     iconFunctionType |-> iconFn]

\* icon-rotate: a constant, or an expression of the feature
ConstantRotate(v) == [isConstant |-> TRUE, value |-> v]
DataDrivenRotate == [isConstant |-> FALSE, value |-> 0]

Styles ==
    { Style("point", "viewport", "viewport", TRUE, 250, ConstantRotate(0), 1, "source", "constant"),
      Style("point", "map", "map", TRUE, 250, ConstantRotate(45), 1, "composite", "source"),
      Style("line", "map", "map", TRUE, 1, ConstantRotate(0), 1, "source", "composite"),
      Style("line", "map", "viewport", FALSE, 250, DataDrivenRotate, 2, "constant", "constant"),
      Style("line", "map", "map", TRUE, 250, ConstantRotate(0), 1, "composite", "source"),
      Style("line-center", "map", "map", TRUE, 250, ConstantRotate(0), 1, "camera", "camera"),
      Style("line-center", "viewport", "viewport", FALSE, 1, ConstantRotate(45), 2, "source", "constant") }

\* StyleImage, and the value of imageMap[name] for a name it does not hold
Image(sdf, pixelRatio) == [present |-> TRUE, sdf |-> sdf, pixelRatio |-> pixelRatio]
NoImage == [present |-> FALSE, sdf |-> FALSE, pixelRatio |-> 0]

\* an SDF icon and a bitmap icon of another resolution
ImagesMixed == [n \in Icons |-> IF n = "i1" THEN Image(TRUE, 1) ELSE Image(FALSE, 2)]
\* one bitmap icon; "i2" is not in the map
ImagesBitmap == [n \in Icons |-> IF n = "i1" THEN Image(FALSE, 1) ELSE NoImage]

\* the arguments of a pass: the texts whose glyphs the glyph map holds, the
\* image map and the debug flag
Arguments(gm, im, show) == [glyphMap |-> gm, imageMap |-> im, showCollisionBoxes |-> show]

PassArguments ==
    { Arguments(Texts, ImagesMixed, FALSE),
      Arguments(Texts, ImagesBitmap, TRUE),
      Arguments(Texts \ {TextElm}, ImagesMixed, TRUE) }

(***************************************************************************)
(* symbol_layout.js                                                        *)
(***************************************************************************)
EmptyMap == [t \in {} |-> <<>>]

\* beginLayout keeping the duplicate-suppression map of the last pass
beginLayoutKeepCompareText(b) ==
    [createArrays(b) EXCEPT
        !.symbolInstances = <<>>,
        !.tilePixelRatio = EXTENT \div (TileSizeBase * b.overscaling),
        !.iconsNeedLinear = FALSE]

\* performSymbolLayout, lines 64-70: the arrays and accumulators a pass
\* starts from
beginLayout(b) ==
    [createArrays(b) EXCEPT
        !.symbolInstances = <<>>,
        !.tilePixelRatio = EXTENT \div (TileSizeBase * b.overscaling),
        !.compareText = EmptyMap,
        !.iconsNeedLinear = FALSE]

\* lines 99 and 196
textAlongLineOf(layout) ==
    layout.textRotationAlignment = "map" /\ layout.symbolPlacement # "point"

\* line 197
iconAlongLineOf(layout) ==
    layout.iconRotationAlignment = "map" /\ layout.symbolPlacement # "point"

\* line 121: whether the text is shaped in the vertical writing mode too
shapesVertical(text, layout) ==
    allowsVerticalWritingMode(text) /\ textAlongLineOf(layout) /\ layout.textKeepUpright

\* lines 107-124
shapeFeatureText(feature, layout, gm) ==
    IF feature.text # NoText
    THEN [horizontal |-> shapeText(feature.text, gm, WritingMode.horizontal),
          vertical |-> IF shapesVertical(feature.text, layout)
                       THEN shapeText(feature.text, gm, WritingMode.vertical)
                       ELSE <<>>]
    ELSE [horizontal |-> <<>>, vertical |-> <<>>]

\* layout.get('icon-rotate').constantOr(1)
constantOr(value, default) == IF value.isConstant THEN value.value ELSE default

\* iconsNeedLinear decided by the resolution alone
needsLinearByRatio(image, b) == image.pixelRatio # b.pixelRatio

\* lines 139-143
needsLinear(image, b) ==
    IF image.pixelRatio # b.pixelRatio THEN TRUE
    ELSE constantOr(b.layout.iconRotate, 1) # 0

\* lines 126-145: the icon of the feature, the SDF flag and the linear flag
shapeFeatureIcon(b, log, feature, im) ==
    IF feature.icon # NoIcon /\ im[feature.icon].present
    THEN LET image == im[feature.icon]
         IN [shapedIcon |-> shapeIcon(feature.icon, image),
             bucket |-> [b EXCEPT
                 !.sdfIcons = IF @ = <<>> THEN <<image.sdf>> ELSE @,
                 !.iconsNeedLinear = IF needsLinear(image, b) THEN TRUE ELSE @],
             warnings |-> IF b.sdfIcons # <<>> /\ b.sdfIcons[1] # image.sdf
                          THEN warnOnce(log, "mix-sdf") ELSE log]
    ELSE [shapedIcon |-> <<>>, bucket |-> b, warnings |-> log]

\* hasSymbol forgetting the icon
hasSymbolTextOnly(shaped, icon) == shaped.horizontal # <<>>

\* line 147
hasSymbol(shaped, icon) == shaped.horizontal # <<>> \/ icon # <<>>

\* line 192
symbolMinDistanceOf(b) == b.tilePixelRatio * b.layout.symbolSpacing

\* outsideTile with the upper bounds off by one
outsideTileInclusive(anchor) ==
    anchor.x < 0 \/ anchor.x > EXTENT \/ anchor.y < 0 \/ anchor.y > EXTENT

\* line 202
outsideTile(anchor) ==
    anchor.x < 0 \/ anchor.x >= EXTENT \/ anchor.y < 0 \/ anchor.y >= EXTENT

Visit(line, anchor) == [line |-> line, anchor |-> anchor]

\* lines 216-235: the anchors of every clipped line, in order
lineAnchors(feature) ==
    Flatten([k \in 1..Len(clipLine(feature)) |->
        [a \in 1..Len(getAnchors(feature, k)) |->
            Visit(clipLine(feature)[k], getAnchors(feature, k)[a])]])

\* lines 236-252: the centre anchor of every line of two points or more
lineCenterAnchors(feature) ==
    Flatten([k \in 1..Len(feature.geometry) |->
        IF Len(feature.geometry[k]) > 1 /\ getCenterAnchor(feature, k) # <<>>
        THEN <<Visit(feature.geometry[k], getCenterAnchor(feature, k)[1])>>
        ELSE <<>>])

\* lines 253-258
polygonAnchors(feature) ==
    LET polygons == classifyRings(feature.geometry)
    IN [k \in 1..Len(polygons) |->
           LET poi == findPoleOfInaccessibility(polygons[k], PolePrecision)
           IN Visit(polygons[k][1], Anchor(poi.x, poi.y, 0))]

\* lineStringAnchors at the last vertex of each line
lineStringAnchorsAtEnd(feature) ==
    [k \in 1..Len(feature.geometry) |->
        LET line == feature.geometry[k]
        IN Visit(line, Anchor(line[Len(line)].x, line[Len(line)].y, 0))]

\* lines 259-263
lineStringAnchors(feature) ==
    [k \in 1..Len(feature.geometry) |->
        LET line == feature.geometry[k]
        IN Visit(line, Anchor(line[1].x, line[1].y, 0))]

\* lines 264-269
pointAnchors(feature) ==
    Flatten([k \in 1..Len(feature.geometry) |->
        [p \in 1..Len(feature.geometry[k]) |->
            LET point == feature.geometry[k][p]
            IN Visit(<<point>>, Anchor(point.x, point.y, 0))]])

\* lines 216-270: the branch of addFeature
branchOf(symbolPlacement, type) ==
    IF symbolPlacement = "line" THEN "line"
    ELSE IF symbolPlacement = "line-center" THEN "line-center"
    ELSE IF type = "Polygon" THEN "Polygon"
    ELSE IF type = "LineString" THEN "LineString"
    ELSE IF type = "Point" THEN "Point"
    ELSE "none"

\* lines 216-270: the (line, anchor) pairs addFeature visits, in order
anchorsOf(br, feature) ==
    CASE br = "line" -> lineAnchors(feature)
      [] br = "line-center" -> lineCenterAnchors(feature)
      [] br = "Polygon" -> polygonAnchors(feature)
      [] br = "LineString" -> lineStringAnchors(feature)
      [] br = "Point" -> pointAnchors(feature)
      [] OTHER -> <<>>

\* anchorIsTooClose looking at the last stored anchor only
anchorIsTooCloseToLast(compareText, text, symbolMinDistance, anchor) ==
    IF text \notin DOMAIN compareText
    THEN [tooClose |-> FALSE, compareText |-> compareText @@ (text :> <<anchor>>)]
    ELSE IF \E k \in {Len(compareText[text])} :
                DistLessThanHalf(anchor, compareText[text][k], symbolMinDistance)
         THEN [tooClose |-> TRUE, compareText |-> compareText]
         ELSE [tooClose |-> FALSE,
               compareText |-> [compareText EXCEPT ![text] = Append(@, anchor)]]

\* lines 445-461; repeatDistance is passed as symbolMinDistance, twice it
anchorIsTooClose(compareText, text, symbolMinDistance, anchor) ==
    IF text \notin DOMAIN compareText
    THEN [tooClose |-> FALSE, compareText |-> compareText @@ (text :> <<anchor>>)]
    ELSE IF \E k \in 1..Len(compareText[text]) :
                DistLessThanHalf(anchor, compareText[text][k], symbolMinDistance)
         THEN [tooClose |-> TRUE, compareText |-> compareText]
         ELSE [tooClose |-> FALSE,
               compareText |-> [compareText EXCEPT ![text] = Append(@, anchor)]]

\* exceedsPackedSize comparing with 65536
exceedsPackedSizeOffByOne(packed) == packed > (MAX_PACKED_SIZE + 1) * SizeUnit

\* lines 297 and 305: a packed size, in tenths, beyond the 16-bit bound
exceedsPackedSize(packed) == packed > MAX_PACKED_SIZE * SizeUnit

\* lines 293-308 and 392-407: the packed size data of a feature; none for a
\* constant or camera function
sizeDataOf(functionType, size) ==
    IF functionType = "source" THEN <<SIZE_PACK_FACTOR * size.z>>
    ELSE IF functionType = "composite"
         THEN <<SIZE_PACK_FACTOR * size.lo, SIZE_PACK_FACTOR * size.hi>>
         ELSE <<>>

\* lines 297-299 and 305-307: one warning for a size data with a value out
\* of range
warnSize(log, sizeData, message) ==
    IF \E k \in 1..Len(sizeData) : exceedsPackedSize(sizeData[k])
    THEN warnOnce(log, message) ELSE log

\* lines 275-327
addTextVertices(b, log, anchor, shapedText, feature, lineArray, writingMode, placedTextSymbolIndices) ==
    LET glyphQuads == getGlyphQuads(shapedText)
        textSizeData == sizeDataOf(b.textFunctionType, feature.textSize)
        b1 == addSymbols(b, "text", glyphQuads, textSizeData, writingMode, anchor, lineArray)
    IN [bucket |-> b1,
        warnings |-> warnSize(log, textSizeData, "text-size"),
        placedTextSymbolIndices |->
            Append(placedTextSymbolIndices, Len(b1.text.placedSymbolArray) - 1),
        vertices |-> glyphQuads * 4]

\* horizontalWritingMode ignoring the vertical shaping
horizontalWritingModeOnly(shaped) == WritingMode.horizontalOnly

\* line 370: the writing mode the horizontal placement is tagged with
horizontalWritingMode(shaped) ==
    IF shaped.vertical # <<>> THEN WritingMode.horizontal ELSE WritingMode.horizontalOnly

\* boxRange with the range [0, 0) for a sub-label without collision feature
boxRangeFromZero(collisionFeature, collisionBoxArray) ==
    IF collisionFeature # <<>>
    THEN [start |-> collisionFeature[1].boxStartIndex,
          end |-> collisionFeature[1].boxEndIndex]
    ELSE [start |-> 0, end |-> 0]

\* lines 377-378 and 422-423: the range of a collision feature, or the empty
\* range at the end of the store for a sub-label without one
boxRange(collisionFeature, collisionBoxArray) ==
    IF collisionFeature # <<>>
    THEN [start |-> collisionFeature[1].boxStartIndex,
          end |-> collisionFeature[1].boxEndIndex]
    ELSE [start |-> Len(collisionBoxArray), end |-> Len(collisionBoxArray)]

TextFootprint(shapedText) == [kind |-> "text", of |-> shapedText.text]
IconFootprint(icon) == [kind |-> "icon", of |-> icon.image]

\* textCollisionFeature built on a store of its own
textCollisionFeatureFresh(b, line, anchor, shaped, textAlongLine, feature) ==
    CollisionFeature(<<>>, line, anchor, feature.index,
                     feature.sourceLayerIndex, b.index,
                     TextFootprint(shaped.horizontal[1]), textAlongLine)

\* line 369: the one collision feature of the text, built from the
\* horizontal shaping
textCollisionFeature(b, line, anchor, shaped, textAlongLine, feature) ==
    CollisionFeature(b.collisionBoxArray, line, anchor, feature.index,
                     feature.sourceLayerIndex, b.index,
                     TextFootprint(shaped.horizontal[1]), textAlongLine)

\* line 370: the horizontal placement, after the collision feature cf
placeHorizontal(cf, b, log, anchor, shaped, feature, lineArray) ==
    [cf |-> cf,
     h |-> addTextVertices([b EXCEPT !.collisionBoxArray = cf.collisionBoxArray],
               log, anchor, shaped.horizontal[1], feature, lineArray,
               horizontalWritingMode(shaped), <<>>)]

\* lines 372-374: the vertical placement, after the horizontal one
placeVertical(t, anchor, shaped, feature, lineArray) ==
    [cf |-> t.cf, h |-> t.h,
     v |-> IF shaped.vertical # <<>>
           THEN addTextVertices(t.h.bucket, t.h.warnings, anchor, shaped.vertical[1],
                    feature, lineArray, WritingMode.vertical,
                    t.h.placedTextSymbolIndices)
           ELSE [t.h EXCEPT !.vertices = 0]]

\* what lines 365-375 leave behind
textPlaced(t) ==
    [bucket |-> t.v.bucket, warnings |-> t.v.warnings,
     textCollisionFeature |-> <<t.cf>>,
     numGlyphVertices |-> t.h.vertices,
     numVerticalGlyphVertices |-> t.v.vertices,
     placedTextSymbolIndices |-> t.v.placedTextSymbolIndices]

\* lines 365-375: the text collision feature and the text placements
addSymbolText(b, log, anchor, line, shaped, textAlongLine, feature, lineArray) ==
    IF shaped.horizontal # <<>>
    THEN textPlaced(placeVertical(
             placeHorizontal(
                 textCollisionFeature(b, line, anchor, shaped, textAlongLine, feature),
                 b, log, anchor, shaped, feature, lineArray),
             anchor, shaped, feature, lineArray))
    ELSE [bucket |-> b, warnings |-> log, textCollisionFeature |-> <<>>,
          numGlyphVertices |-> 0, numVerticalGlyphVertices |-> 0,
          placedTextSymbolIndices |-> <<>>]

\* lines 380-420: the icon collision feature, never aligned to the line, and
\* the icon placement
addSymbolIcon(b, log, anchor, line, icon, feature, lineArray) ==
    IF icon # <<>>
    THEN LET iconQuads == getIconQuads(icon[1])
             cf == CollisionFeature(b.collisionBoxArray, line, anchor, feature.index,
                       feature.sourceLayerIndex, b.index, IconFootprint(icon[1]), FALSE)
             iconSizeData == sizeDataOf(b.iconFunctionType, feature.iconSize)
         IN [bucket |-> addSymbols([b EXCEPT !.collisionBoxArray = cf.collisionBoxArray],
                            "icon", iconQuads, iconSizeData, 0, anchor, lineArray),
             warnings |-> warnSize(log, iconSizeData, "icon-size"),
             iconCollisionFeature |-> <<cf>>,
             numIconVertices |-> iconQuads * 4]
    ELSE [bucket |-> b, warnings |-> log, iconCollisionFeature |-> <<>>,
          numIconVertices |-> 0]

\* line 363
keyOf(shaped) ==
    murmur3(IF shaped.horizontal # <<>> THEN shaped.horizontal[1].text ELSE "")

\* lines 422-443: the glyph ceiling and the symbol instance, from the text
\* part t, its box range and the icon part ic
symbolInstanceOf(t, textBox, ic, anchor, shaped, feature) ==
    LET iconBox == boxRange(ic.iconCollisionFeature, ic.bucket.collisionBoxArray)
    IN [bucket |-> ic.bucket,
        warnings |-> IF ic.bucket.glyphOffsetArrayLength >= MAX_GLYPHS
                     THEN warnOnce(ic.warnings, "too-many-glyphs") ELSE ic.warnings,
        instance |-> [key |-> keyOf(shaped),
                      textBoxStartIndex |-> textBox.start,
                      textBoxEndIndex |-> textBox.end,
                      iconBoxStartIndex |-> iconBox.start,
                      iconBoxEndIndex |-> iconBox.end,
                      anchor |-> anchor,
                      featureIndex |-> feature.index,
                      numGlyphVertices |-> t.numGlyphVertices,
                      numVerticalGlyphVertices |-> t.numVerticalGlyphVertices,
                      numIconVertices |-> ic.numIconVertices,
                      placedTextSymbolIndices |-> t.placedTextSymbolIndices,
                      crossTileID |-> 0]]

\* lines 377-443: the text box range is read before the icon is added
addSymbolAfterText(t, anchor, line, shaped, icon, feature, lineArray) ==
    symbolInstanceOf(t,
        boxRange(t.textCollisionFeature, t.bucket.collisionBoxArray),
        addSymbolIcon(t.bucket, t.warnings, anchor, line, icon, feature, lineArray),
        anchor, shaped, feature)

\* lines 357-443, after addToLineVertexArray returned la
addSymbolAfterLine(la, log, anchor, line, shaped, icon, textAlongLine, feature) ==
    addSymbolAfterText(
        addSymbolText(la.bucket, log, anchor, line, shaped, textAlongLine, feature,
            [lineStartIndex |-> la.lineStartIndex, lineLength |-> la.lineLength]),
        anchor, line, shaped, icon, feature,
        [lineStartIndex |-> la.lineStartIndex, lineLength |-> la.lineLength])

\* lines 335-443
addSymbol(b, log, anchor, line, shaped, icon, textAlongLine, feature) ==
    addSymbolAfterLine(addToLineVertexArray(b, anchor, line), log, anchor, line,
                       shaped, icon, textAlongLine, feature)

\* addSymbol giving up at the glyph ceiling
pushSymbolInstanceBelowCeiling(r) ==
    [bucket |-> IF r.bucket.glyphOffsetArrayLength >= MAX_GLYPHS THEN r.bucket
                ELSE [r.bucket EXCEPT !.symbolInstances = Append(@, r.instance)],
     warnings |-> r.warnings]

\* line 209: bucket.symbolInstances.push(r)
pushSymbolInstance(r) ==
    [bucket |-> [r.bucket EXCEPT !.symbolInstances = Append(@, r.instance)],
     warnings |-> r.warnings]

\* lines 201-214
addSymbolAtAnchor(b, log, line, anchor, shaped, icon, feature) ==
    IF outsideTile(anchor)
    THEN [bucket |-> b, warnings |-> log]
    ELSE pushSymbolInstance(addSymbol(b, log, anchor, line, shaped, icon,
                                      textAlongLineOf(b.layout), feature))

\* the repeat test leaving no trace of an anchor outside the tile
afterRepeatTestInsideOnly(c, b, log, line, anchor, shaped, icon, feature) ==
    IF c.tooClose \/ outsideTile(anchor)
    THEN [bucket |-> b, warnings |-> log]
    ELSE addSymbolAtAnchor([b EXCEPT !.compareText = c.compareText], log, line,
                           anchor, shaped, icon, feature)

\* lines 231-233, after anchorIsTooClose returned c
afterRepeatTest(c, b, log, line, anchor, shaped, icon, feature) ==
    IF c.tooClose
    THEN [bucket |-> [b EXCEPT !.compareText = c.compareText], warnings |-> log]
    ELSE addSymbolAtAnchor([b EXCEPT !.compareText = c.compareText], log, line,
                           anchor, shaped, icon, feature)

\* lines 229-234, and 249, 257, 262, 267: one anchor of the feature; under
\* line placement a text label is first tested against the labels of the
\* same text
visitAnchor(b, log, br, line, anchor, shaped, icon, feature) ==
    IF br = "line" /\ shaped.horizontal # <<>>
    THEN afterRepeatTest(
             anchorIsTooClose(b.compareText, shaped.horizontal[1].text,
                              symbolMinDistanceOf(b), anchor),
             b, log, line, anchor, shaped, icon, feature)
    ELSE addSymbolAtAnchor(b, log, line, anchor, shaped, icon, feature)

(***************************************************************************)
(* The state machine.                                                      *)
(***************************************************************************)
NoShaping == [horizontal |-> <<>>, vertical |-> <<>>]

\* nothing was drawn yet
NoFrame ==
    [coords |-> <<>>, isText |-> FALSE, translate |-> <<0, 0>>,
     tileBatches |-> <<>>, circleCount |-> 0, circleOffset |-> 0, boxDraws |-> <<>>,
     vertexData |-> <<>>, quadWrites |-> <<>>, circleDraws |-> <<>>]

InitLayout(fs, st) ==
    /\ bucket = [features |-> WithIndex(fs), index |-> 0, pixelRatio |-> 1,
                    overscaling |-> st.overscaling, layout |-> st,
                    textFunctionType |-> st.textFunctionType,
                    iconFunctionType |-> st.iconFunctionType,
                    symbolInstances |-> <<>>, collisionBoxArray |-> <<>>,
                    tilePixelRatio |-> 0, compareText |-> EmptyMap,
                    iconsNeedLinear |-> FALSE, sdfIcons |-> <<>>,
                    text |-> [placedSymbolArray |-> <<>>, vertices |-> 0],
                    icon |-> [placedSymbolArray |-> <<>>, vertices |-> 0],
                    glyphOffsetArrayLength |-> 0, lineVertexArray |-> <<>>,
                    collisionDebugBuffers |-> FALSE]
    /\ pc = "idle"
    /\ glyphMap = {}
    /\ imageMap = [n \in Icons |-> NoImage]
    /\ showCollisionBoxes = FALSE
    /\ i = 0
    /\ shapedTextOrientations = NoShaping
    /\ shapedIcon = <<>>
    /\ anchors = <<>>
    /\ branch = "none"
    /\ warnings = <<>>
    /\ offered = <<>>
    /\ runs = <<>>

InitDraw ==
    /\ quadTriangles = <<>>
    /\ dpc = "idle"
    /\ frame = NoFrame

Init == (\E fs \in FeatureLists, st \in Styles : InitLayout(fs, st)) /\ InitDraw

\* performSymbolLayout is called: lines 58-100
PerformSymbolLayout ==
    /\ pc = "idle"
    /\ Len(runs) < MaxPasses
    /\ \E args \in PassArguments :
          /\ glyphMap' = args.glyphMap
          /\ imageMap' = args.imageMap
          /\ showCollisionBoxes' = args.showCollisionBoxes
    /\ bucket' = beginLayout(bucket)
    /\ pc' = "features"
    /\ i' = 1
    /\ shapedTextOrientations' = NoShaping
    /\ shapedIcon' = <<>>
    /\ anchors' = <<>>
    /\ branch' = "none"
    /\ offered' = <<>>
    /\ UNCHANGED <<warnings, runs>>
    /\ UNCHANGED drawVars

\* one iteration of the loop over the features, lines 103-149, up to the
\* first anchor of addFeature
LayoutFeature ==
    /\ pc = "features"
    /\ anchors = <<>>
    /\ i <= Len(bucket.features)
    /\ LET feature == bucket.features[i]
           shaped == shapeFeatureText(feature, bucket.layout, glyphMap)
           ic == shapeFeatureIcon(bucket, warnings, feature, imageMap)
           br == IF hasSymbol(shaped, ic.shapedIcon)
                 THEN branchOf(bucket.layout.symbolPlacement, feature.type)
                 ELSE "none"
           todo == anchorsOf(br, feature)
       IN /\ bucket' = ic.bucket
          /\ warnings' = ic.warnings
          /\ shapedTextOrientations' = shaped
          /\ shapedIcon' = ic.shapedIcon
          /\ branch' = br
          /\ anchors' = todo
          /\ i' = IF todo = <<>> THEN i + 1 ELSE i
    /\ UNCHANGED <<pc, glyphMap, imageMap, showCollisionBoxes, offered, runs>>
    /\ UNCHANGED drawVars

\* one iteration of the loop over the anchors of the feature
VisitAnchor ==
    /\ pc = "features"
    /\ anchors # <<>>
    /\ LET feature == bucket.features[i]
           next == Head(anchors)
           r == visitAnchor(bucket, warnings, branch, next.line, next.anchor,
                            shapedTextOrientations, shapedIcon, feature)
       IN /\ bucket' = r.bucket
          /\ warnings' = r.warnings
          /\ offered' = Append(offered, [featureIndex |-> feature.index,
                                         anchor |-> next.anchor])
    /\ anchors' = Tail(anchors)
    /\ i' = IF Tail(anchors) = <<>> THEN i + 1 ELSE i
    /\ UNCHANGED <<pc, glyphMap, imageMap, showCollisionBoxes,
                   shapedTextOrientations, shapedIcon, branch, runs>>
    /\ UNCHANGED drawVars

\* the end of the pass, lines 152-155
FinishLayout ==
    /\ pc = "features"
    /\ anchors = <<>>
    /\ i > Len(bucket.features)
    /\ bucket' = IF showCollisionBoxes THEN generateCollisionDebugBuffers(bucket)
                 ELSE bucket
    /\ pc' = "idle"
    /\ runs' = Append(runs, [glyphMap |-> glyphMap, imageMap |-> imageMap,
                             symbolInstances |-> bucket.symbolInstances,
                             boxes |-> Len(bucket.collisionBoxArray),
                             warnings |-> Len(warnings)])
    /\ UNCHANGED <<glyphMap, imageMap, showCollisionBoxes, i, shapedTextOrientations,
                   shapedIcon, anchors, branch, warnings, offered>>
    /\ UNCHANGED drawVars

Next == PerformSymbolLayout \/ LayoutFeature \/ VisitAnchor \/ FinishLayout

Spec == Init /\ [][Next]_vars

(***************************************************************************)
(* part_000: the collision debug renderer.                                 *)
(* Collaborators whose code lies outside the excerpt: the tiles and their  *)
(* buckets, the matrices, the struct arrays and the segment of a draw.     *)
(***************************************************************************)
\* a SymbolBucket as the renderer reads it: the circles placement left, four
\* numbers per circle, and whether the box buffers were generated
DebugBucket(circleArray, textBox, iconBox) ==
    [collisionCircleArray |-> circleArray, textCollisionBox |-> textBox,
     iconCollisionBox |-> iconBox]

\* sourceCache.getTile(coord), with tile.getBucket(layer) as 0 or 1 element
Tile(id, b) == [id |-> id, bucket |-> b]

TileNoBucket == Tile("a", <<>>)
TileNoCircles == Tile("b", <<DebugBucket(<<>>, TRUE, TRUE)>>)
TileOneCircle == Tile("c", <<DebugBucket(<<30, 31, 5, 0>>, FALSE, TRUE)>>)
TileTwoCircles == Tile("d", <<DebugBucket(<<40, 41, 6, 1, 42, 43, 7, 0>>, TRUE, FALSE)>>)

TilePool == {TileNoBucket, TileNoCircles, TileOneCircle, TileTwoCircles}

\* the coords of a call, as the tiles they name
CoordLists == UNION {[1..n -> TilePool] : n \in 0..MaxTiles}

\* isText and translate of a call: the text pass untranslated, the icon
\* pass translated
DrawArguments ==
    { [isText |-> TRUE, translate |-> <<0, 0>>],
      [isText |-> FALSE, translate |-> <<0, 5>>] }

\* getCollisionDebugTileProjectionMatrix(coord, bucket, tr)
getCollisionDebugTileProjectionMatrix(tile) == [tile |-> tile.id, translate |-> <<0, 0>>]

\* painter.translatePosMatrix(tileMatrix, tile, translate, translateAnchor)
translatePosMatrix(tileMatrix, translate) == [tileMatrix EXCEPT !.translate = translate]

\* the product of lines 65-66
placementInverse(tile) == [tile |-> tile.id, inverse |-> TRUE]

\* a write into a typed array: an index outside the array stores nothing
StoreAt(view, idx, value) ==
    IF idx >= 0 /\ idx < Len(view) THEN [view EXCEPT ![idx + 1] = value] ELSE view

\* CollisionCircleLayoutArray: resize(n) and _trim(), then emplace(i, ...)
NoVertex == <<>>
resizeVertexData(n) == [k \in 1..n |-> NoVertex]
emplace(vertexData, k, x, y, radius, collision, corner) ==
    StoreAt(vertexData, k,
            [x |-> x, y |-> y, radius |-> radius, collision |-> collision,
             corner |-> corner])

\* QuadTriangleArray: resize(n) and _trim() leave n triangles of three
\* indices each, and no room beyond them
IndicesPerTriangle == 3
resizeQuadTriangles(n) == [length |-> n, uint32 |-> [k \in 1..(n * IndicesPerTriangle) |-> 0]]

\* SegmentVector.simpleSegment
simpleSegment(vertexOffset, primitiveOffset, vertexLength, primitiveLength) ==
    [vertexOffset |-> vertexOffset, primitiveOffset |-> primitiveOffset,
     vertexLength |-> vertexLength, primitiveLength |-> primitiveLength]

(***************************************************************************)
(* part_000                                                                *)
(***************************************************************************)
\* lines 49-54
posMatrixOf(tile, translate) ==
    IF translate[1] # 0 \/ translate[2] # 0
    THEN translatePosMatrix(getCollisionDebugTileProjectionMatrix(tile), translate)
    ELSE getCollisionDebugTileProjectionMatrix(tile)

\* lines 58-78: the batch of a tile with circles
pushTileBatch(acc, tile, b, translate) ==
    IF Len(b.collisionCircleArray) > 0
    THEN [acc EXCEPT
             !.tileBatches = Append(@, [circleArray |-> b.collisionCircleArray,
                                        circleOffset |-> acc.circleOffset,
                                        transform |-> posMatrixOf(tile, translate),
                                        invTransform |-> placementInverse(tile),
                                        projection |-> tile.id]),
             !.circleCount = @ + Len(b.collisionCircleArray) \div 4,
             !.circleOffset = acc.circleCount + Len(b.collisionCircleArray) \div 4]
    ELSE acc

\* lines 55, 79-88: the boxes of the tile, drawn as lines from its buffers
drawBoxes(acc, tile, b, isText, translate) ==
    IF (IF isText THEN b.textCollisionBox ELSE b.iconCollisionBox)
    THEN [acc EXCEPT !.boxDraws = Append(@, [tile |-> tile.id,
                                             posMatrix |-> posMatrixOf(tile, translate)])]
    ELSE acc

\* lines 43-89: the loop over coords, from coords[k] on
RECURSIVE visitTiles(_, _, _, _, _)
visitTiles(coords, k, isText, translate, acc) ==
    IF k > Len(coords) THEN acc
    ELSE IF coords[k].bucket = <<>>
    THEN visitTiles(coords, k + 1, isText, translate, acc)
    ELSE visitTiles(coords, k + 1, isText, translate,
             drawBoxes(pushTileBatch(acc, coords[k], coords[k].bucket[1], translate),
                       coords[k], coords[k].bucket[1], isText, translate))

\* lines 107-117: the four vertices of circle c of a batch
emplaceCircle(vertexData, vertexOffset, circleArray, c) ==
    emplace(
      emplace(
        emplace(
          emplace(vertexData, vertexOffset, circleArray[c * 4 + 1], circleArray[c * 4 + 2],
                  circleArray[c * 4 + 3], circleArray[c * 4 + 4], 0),
          vertexOffset + 1, circleArray[c * 4 + 1], circleArray[c * 4 + 2],
          circleArray[c * 4 + 3], circleArray[c * 4 + 4], 1),
        vertexOffset + 2, circleArray[c * 4 + 1], circleArray[c * 4 + 2],
        circleArray[c * 4 + 3], circleArray[c * 4 + 4], 2),
      vertexOffset + 3, circleArray[c * 4 + 1], circleArray[c * 4 + 2],
      circleArray[c * 4 + 3], circleArray[c * 4 + 4], 3)

\* lines 105-119: the loops over the batches and their circles, from circle
\* c of batch j on
RECURSIVE fillVertexData(_, _, _, _, _)
fillVertexData(vertexData, vertexOffset, batches, j, c) ==
    IF j > Len(batches) THEN vertexData
    ELSE IF c * 4 >= Len(batches[j].circleArray)
    THEN fillVertexData(vertexData, vertexOffset, batches, j + 1, 0)
    ELSE fillVertexData(emplaceCircle(vertexData, vertexOffset, batches[j].circleArray, c),
                        vertexOffset + 4, batches, j, c + 1)

\* lines 160-167: the six stores of iteration k of the loop
writeQuad(uint32, k) ==
    StoreAt(StoreAt(StoreAt(StoreAt(StoreAt(StoreAt(uint32,
        k * 6 + 0, k * 4 + 0), k * 6 + 1, k * 4 + 1), k * 6 + 2, k * 4 + 2),
        k * 6 + 3, k * 4 + 2), k * 6 + 4, k * 4 + 3), k * 6 + 5, k * 4 + 0)

\* lines 159-168: the loop, from iteration k on; writes lists the indices
\* the loop has stored to
RECURSIVE writeQuads(_, _, _)
writeQuads(array, k, triCount) ==
    IF k >= triCount THEN array
    ELSE writeQuads(
             [array EXCEPT !.uint32 = writeQuad(@, k),
                           !.writes = @ \o [n \in 1..6 |-> k * 6 + n - 1]],
             k + 1, triCount)

\* lines 151-171
createQuadTriangles(quadCount) ==
    writeQuads([length |-> quadCount * 2,
                uint32 |-> resizeQuadTriangles(quadCount * 2).uint32,
                writes |-> <<>>],
               0, quadCount * 2)

\* line 120
needsQuadTriangles(shared, circleCount) ==
    shared = <<>> \/ shared[1].length < circleCount * 2

\* every batch drawn from the first triangle
drawBatchFromStart(batch) ==
    [transform |-> batch.transform, invTransform |-> batch.invTransform,
     segment |-> simpleSegment(0, 0, Len(batch.circleArray),
                               Len(batch.circleArray) \div 2)]

\* lines 128-145: the draw call of a batch
drawBatch(batch) ==
    [transform |-> batch.transform, invTransform |-> batch.invTransform,
     segment |-> simpleSegment(0, batch.circleOffset * 2, Len(batch.circleArray),
                               Len(batch.circleArray) \div 2)]

\* lines 34-93: the call, the loop over the tiles and the early return
DrawCollisionDebug ==
    /\ dpc = "idle"
    /\ \E coords \in CoordLists, args \in DrawArguments :
          /\ frame' = visitTiles(coords, 1, args.isText, args.translate,
                          [NoFrame EXCEPT !.coords = coords, !.isText = args.isText,
                                          !.translate = args.translate])
          /\ dpc' = IF ~args.isText \/ frame'.tileBatches = <<>> THEN "idle"
                    ELSE "circles"
    /\ UNCHANGED quadTriangles
    /\ UNCHANGED layoutVars

\* lines 95-148: the circles of the frame
RenderCollisionCircles ==
    /\ dpc = "circles"
    /\ LET made == createQuadTriangles(frame.circleCount)
           fresh == needsQuadTriangles(quadTriangles, frame.circleCount)
       IN /\ quadTriangles' = IF fresh
                              THEN <<[length |-> made.length, uint32 |-> made.uint32]>>
                              ELSE quadTriangles
          /\ frame' = [frame EXCEPT
                 !.vertexData = fillVertexData(resizeVertexData(frame.circleCount * 4),
                                               0, frame.tileBatches, 1, 0),
                 !.quadWrites = IF fresh THEN made.writes ELSE <<>>,
                 !.circleDraws = [j \in 1..Len(frame.tileBatches) |->
                                     drawBatch(frame.tileBatches[j])]]
    /\ dpc' = "idle"
    /\ UNCHANGED layoutVars

DrawNext == DrawCollisionDebug \/ RenderCollisionCircles

\* the renderer alone, beside a bucket that is not laid out meanwhile
DrawInit == InitLayout(<<>>, CHOOSE st \in Styles : TRUE) /\ InitDraw

DrawSpec == DrawInit /\ [][DrawNext]_vars

(***************************************************************************)
(* Vocabulary of the properties.                                           *)
(***************************************************************************)
Instances == bucket.symbolInstances
Store == bucket.collisionBoxArray
Placement == bucket.layout.symbolPlacement

InTile(a) == a.x >= 0 /\ a.x < EXTENT /\ a.y >= 0 /\ a.y < EXTENT

\* the feature has a horizontal text shape, an icon shape, in the running pass
HasTextShape(f) == f.text # NoText /\ f.text \in glyphMap
HasIconShape(f) == f.icon # NoIcon /\ imageMap[f.icon].present

\* LayoutFeature has run for feature f in the pass
Reached(f) == pc = "features" /\ (f.index < i \/ (f.index = i /\ anchors # <<>>))
LaidOut(f) == f.index < i

\* the anchors visited so far for feature f, in order
VisitedOf(f) ==
    LET idx == SelectIdx([k \in 1..Len(offered) |-> offered[k].featureIndex = f.index],
                         1, Len(offered))
    IN [k \in 1..Len(idx) |-> offered[idx[k]].anchor]

\* the anchors of the symbol instances of feature f, in order
InstanceAnchorsOf(f) ==
    LET idx == SelectIdx([k \in 1..Len(Instances) |-> Instances[k].featureIndex = f.index],
                         1, Len(Instances))
    IN [k \in 1..Len(idx) |-> Instances[idx[k]].anchor]

\* every anchor addFeature offers for f: those visited and those still to visit
OfferedOf(f) ==
    VisitedOf(f) \o (IF f.index = i THEN [k \in 1..Len(anchors) |-> anchors[k].anchor]
                     ELSE <<>>)

SqDist(a, b) == (a.x - b.x) * (a.x - b.x) + (a.y - b.y) * (a.y - b.y)

\* the number of boxes the store held when the running (or last) pass began
PassBase ==
    LET done == IF pc = "idle" THEN Len(runs) - 1 ELSE Len(runs)
    IN IF done <= 0 THEN 0 ELSE runs[done].boxes

(***************************************************************************)
(* C1: an anchor with x < 0, x >= EXTENT, y < 0 or y >= EXTENT is never    *)
(* realized: the step that visits it leaves bucket.symbolInstances, the    *)
(* collision-box store and the line-vertex array as they were, and every   *)
(* symbol instance has 0 <= anchor.x < EXTENT and 0 <= anchor.y < EXTENT.  *)
(***************************************************************************)
C1_InstancesInsideTile ==
    \A k \in 1..Len(Instances) : InTile(Instances[k].anchor)

C1_OutsideAnchorChangesNothing ==
    (pc = "features" /\ anchors # <<>> /\ ~InTile(Head(anchors).anchor))
        => /\ bucket'.symbolInstances = bucket.symbolInstances
           /\ bucket'.collisionBoxArray = bucket.collisionBoxArray
           /\ bucket'.lineVertexArray = bucket.lineVertexArray

C1_OutsideTileNeverRealized ==
    [](C1_InstancesInsideTile) /\ [][C1_OutsideAnchorChangesNothing]_vars

\* an anchor on the tile's right edge was visited next to one that became a
\* symbol instance
C1_Witness ==
    /\ \E k \in 1..Len(offered) : offered[k].anchor.x = EXTENT
    /\ \E k \in 1..Len(offered) : offered[k].anchor.y < 0
    /\ Len(Instances) > 0

(***************************************************************************)
(* C2: under symbol-placement 'line' no two symbol instances of the pass   *)
(* whose horizontal shaped text is the same string have anchors closer     *)
(* than textRepeatDistance = symbolMinDistance / 2, within one feature and *)
(* across features.                                                        *)
(***************************************************************************)
C2_SameTextKeepsRepeatDistance ==
    Placement = "line" =>
        \A j, k \in 1..Len(Instances) :
            LET fj == bucket.features[Instances[j].featureIndex]
                fk == bucket.features[Instances[k].featureIndex]
                symbolMinDistance == (EXTENT \div (TileSizeBase * bucket.overscaling))
                                         * bucket.layout.symbolSpacing
            IN (j < k /\ HasTextShape(fj) /\ HasTextShape(fk) /\ fj.text = fk.text)
                   => 4 * SqDist(Instances[j].anchor, Instances[k].anchor)
                          >= symbolMinDistance * symbolMinDistance

\* two features of the same text both hold symbol instances, and an anchor
\* inside the tile was dropped
C2_Witness ==
    /\ Placement = "line"
    /\ \E j, k \in 1..Len(Instances) :
          /\ Instances[j].featureIndex < Instances[k].featureIndex
          /\ Instances[j].key = Instances[k].key
          /\ Instances[j].key # 0
    /\ \E f \in {bucket.features[n] : n \in 1..Len(bucket.features)} :
          /\ HasTextShape(f)
          /\ \E k \in 1..Len(VisitedOf(f)) :
                /\ InTile(VisitedOf(f)[k])
                /\ \A n \in 1..Len(Instances) : Instances[n].anchor # VisitedOf(f)[k]

(***************************************************************************)
(* C3: a feature with an icon present in the image map and no text gets    *)
(* exactly one symbol instance per anchor inside the tile bounds, each     *)
(* with textBoxStartIndex = textBoxEndIndex, numGlyphVertices = 0,         *)
(* numVerticalGlyphVertices = 0 and no placed text symbol.                 *)
(***************************************************************************)
IconOnly(f) == f.text = NoText /\ HasIconShape(f)

C3_IconOnlyOneInstancePerAnchor ==
    pc = "features" =>
        \A n \in 1..Len(bucket.features) :
            LET f == bucket.features[n]
                all == anchorsOf(branchOf(Placement, f.type), f)
            IN IconOnly(f) =>
                /\ InstanceAnchorsOf(f) = SelectSeq(VisitedOf(f), InTile)
                /\ LaidOut(f) => VisitedOf(f) = [k \in 1..Len(all) |-> all[k].anchor]
                /\ \A k \in 1..Len(Instances) :
                      Instances[k].featureIndex = f.index =>
                          /\ Instances[k].textBoxStartIndex = Instances[k].textBoxEndIndex
                          /\ Instances[k].numGlyphVertices = 0
                          /\ Instances[k].numVerticalGlyphVertices = 0
                          /\ Instances[k].placedTextSymbolIndices = <<>>

\* an icon-only feature is laid out: one anchor inside the tile became a
\* symbol instance, two outside did not
C3_Witness ==
    /\ pc = "features"
    /\ \E n \in 1..Len(bucket.features) :
          LET f == bucket.features[n]
          IN /\ IconOnly(f) /\ LaidOut(f)
             /\ Len(InstanceAnchorsOf(f)) = 1
             /\ Len(VisitedOf(f)) = 3

(***************************************************************************)
(* C4: for a feature shaped in the horizontal and the vertical writing     *)
(* mode (the script allows vertical writing, the text follows the line,    *)
(* keep-upright is on) every symbol instance holds exactly two text        *)
(* placements, the first tagged WritingMode.horizontal and the second      *)
(* vertical, and one text collision feature that both share: one range     *)
(* [textBoxStartIndex, textBoxEndIndex) holding every text box the pass    *)
(* stored for that anchor.                                                 *)
(***************************************************************************)
ShapedBothWays(f) ==
    /\ HasTextShape(f)
    /\ f.text = TextWen
    /\ bucket.layout.textRotationAlignment = "map"
    /\ Placement # "point"
    /\ bucket.layout.textKeepUpright

\* the 0-based indices of the boxes of this pass stored for the text of
\* feature f at anchor a
TextBoxesOf(f, a) ==
    {k \in PassBase..(Len(Store) - 1) :
        /\ Store[k + 1].shaped.kind = "text"
        /\ Store[k + 1].featureIndex = f.index
        /\ Store[k + 1].anchorX = a.x /\ Store[k + 1].anchorY = a.y}

C4_TwoPlacementsShareOneCollisionFeature ==
    \A k \in 1..Len(Instances) :
        LET inst == Instances[k]
            f == bucket.features[inst.featureIndex]
            placed == bucket.text.placedSymbolArray
        IN (pc = "features" /\ ShapedBothWays(f)) =>
              /\ Len(inst.placedTextSymbolIndices) = 2
              /\ inst.placedTextSymbolIndices[2] = inst.placedTextSymbolIndices[1] + 1
              /\ placed[inst.placedTextSymbolIndices[1] + 1].writingMode = 1
              /\ placed[inst.placedTextSymbolIndices[2] + 1].writingMode = 2
              /\ \A n \in 1..2 :
                    /\ placed[inst.placedTextSymbolIndices[n] + 1].anchorX = inst.anchor.x
                    /\ placed[inst.placedTextSymbolIndices[n] + 1].anchorY = inst.anchor.y
              /\ inst.textBoxStartIndex < inst.textBoxEndIndex
              /\ TextBoxesOf(f, inst.anchor)
                     = inst.textBoxStartIndex..(inst.textBoxEndIndex - 1)
              /\ inst.numGlyphVertices = inst.numVerticalGlyphVertices

\* a symbol instance of a feature shaped both ways, next to one shaped
\* horizontally only
C4_Witness ==
    /\ pc = "features"
    /\ \E k \in 1..Len(Instances) : ShapedBothWays(bucket.features[Instances[k].featureIndex])
    /\ \E k \in 1..Len(Instances) :
          /\ ~ShapedBothWays(bucket.features[Instances[k].featureIndex])
          /\ Len(Instances[k].placedTextSymbolIndices) = 1

(***************************************************************************)
(* C5: where addTextVertices packs the text size of a source or composite  *)
(* function, a text-size of 256 or more raises the size-range warning      *)
(* exactly once for each call, and sizes of 255.9 at most raise none.      *)
(***************************************************************************)
CountOf(log, message) == Cardinality({k \in 1..Len(log) : log[k] = message})

\* the text sizes the packing of feature f evaluates, in tenths
PackedTextSizes(f) ==
    IF bucket.textFunctionType = "source" THEN {f.textSize.z}
    ELSE IF bucket.textFunctionType = "composite" THEN {f.textSize.lo, f.textSize.hi}
    ELSE {}

C5_Step ==
    (pc = "features" /\ anchors # <<>>) =>
        LET f == bucket.features[i]
            calls == Len(bucket'.text.placedSymbolArray) - Len(bucket.text.placedSymbolArray)
            raised == CountOf(warnings', "text-size") - CountOf(warnings, "text-size")
        IN /\ (\E size \in PackedTextSizes(f) : size >= 2560) => raised = calls
           /\ (\A size \in PackedTextSizes(f) : size <= 2559) => raised = 0

C5_SizeWarningOncePerCall == [][C5_Step]_vars

\* a feature raised the warning for its horizontal and for its vertical
\* placement, after a feature with both sizes above 256 raised it once for
\* each of its anchors
C5_Witness ==
    /\ pc = "features"
    /\ bucket.textFunctionType = "composite"
    /\ Len(bucket.text.placedSymbolArray) >= 3
    /\ CountOf(warnings, "text-size") = Len(bucket.text.placedSymbolArray)
    /\ \E k \in 1..Len(Instances) :
          /\ bucket.features[Instances[k].featureIndex].textSize.lo = 2559
          /\ Len(Instances[k].placedTextSymbolIndices) = 2
    /\ \E k \in 1..Len(Instances) :
          bucket.features[Instances[k].featureIndex].textSize.lo = 2560

(***************************************************************************)
(* C6: determinism.  Two passes on the same bucket with the same features, *)
(* glyph map, image map and style produce the same symbol instances in the *)
(* same order.                                                             *)
(* As claimed, with equal textBox and iconBox start and end indices:       *)
(* C6_RerunGivesEqualInstances.  As amended, with equal keys, anchors,     *)
(* feature indices, vertex counts and placed-symbol indices, and box       *)
(* ranges equal relative to the length the collision-box store had when    *)
(* the pass began: C6_RerunGivesEqualInstancesUpToStoreBase.               *)
(***************************************************************************)
\* the length of the store when pass n began
BaseOfRun(n) == IF n = 1 THEN 0 ELSE runs[n - 1].boxes

Rebased(inst, base) ==
    [inst EXCEPT !.textBoxStartIndex = @ - base, !.textBoxEndIndex = @ - base,
                 !.iconBoxStartIndex = @ - base, !.iconBoxEndIndex = @ - base]

RebasedRun(n) ==
    [k \in 1..Len(runs[n].symbolInstances) |->
        Rebased(runs[n].symbolInstances[k], BaseOfRun(n))]

SameInputs(m, n) ==
    runs[m].glyphMap = runs[n].glyphMap /\ runs[m].imageMap = runs[n].imageMap

C6_RerunGivesEqualInstances ==
    \A m, n \in 1..Len(runs) :
        (m < n /\ SameInputs(m, n)) => runs[m].symbolInstances = runs[n].symbolInstances

C6_RerunGivesEqualInstancesUpToStoreBase ==
    \A m, n \in 1..Len(runs) :
        (m < n /\ SameInputs(m, n)) => RebasedRun(m) = RebasedRun(n)

\* two passes with the same inputs, under line placement, each with two
\* symbol instances or more of one text
C6_Witness ==
    /\ Placement = "line"
    /\ \E m, n \in 1..Len(runs) :
          /\ m < n /\ SameInputs(m, n)
          /\ \E j, k \in 1..Len(runs[n].symbolInstances) :
                /\ j < k
                /\ runs[n].symbolInstances[j].key = runs[n].symbolInstances[k].key
                /\ runs[n].symbolInstances[j].key # 0

(***************************************************************************)
(* C7: for symbol-placement other than 'line' and 'line-center' the        *)
(* anchors offered to addSymbolAtAnchor have rotation 0 and follow the     *)
(* geometry type: one per input point at that point for a Point, one per   *)
(* line at its first vertex for a LineString, one per classified polygon   *)
(* at its pole of inaccessibility (precision 16) for a Polygon; under      *)
(* 'line' and 'line-center' the geometry-type branches are not taken.      *)
(***************************************************************************)
At(a, p) == a.x = p.x /\ a.y = p.y /\ a.angle = 0

C7_OfFeature(f) ==
    LET all == OfferedOf(f)
        points == Flatten(f.geometry)
        polygons == classifyRings(f.geometry)
    IN IF Placement \in {"line", "line-center"}
       THEN f.index = i => branch = Placement
       ELSE /\ f.index = i => branch = f.type
            /\ f.type = "Point" =>
                  /\ Len(all) = Len(points)
                  /\ \A k \in 1..Len(all) : At(all[k], points[k])
            /\ f.type = "LineString" =>
                  /\ Len(all) = Len(f.geometry)
                  /\ \A k \in 1..Len(all) : At(all[k], f.geometry[k][1])
            /\ f.type = "Polygon" =>
                  /\ Len(all) = Len(polygons)
                  /\ \A k \in 1..Len(all) :
                        At(all[k], findPoleOfInaccessibility(polygons[k], 16))

C7_AnchorsFollowGeometryType ==
    \A n \in 1..Len(bucket.features) :
        LET f == bucket.features[n]
        IN (Reached(f) /\ (HasTextShape(f) \/ HasIconShape(f))) => C7_OfFeature(f)

\* a line feature of two lines and a polygon feature of two polygons are
\* laid out under point placement
C7_Witness ==
    /\ Placement = "point"
    /\ pc = "features"
    /\ \E m, n \in 1..Len(bucket.features) :
          /\ bucket.features[m].type = "LineString" /\ LaidOut(bucket.features[m])
          /\ Len(VisitedOf(bucket.features[m])) = 2
          /\ bucket.features[n].type = "Polygon" /\ LaidOut(bucket.features[n])
          /\ Len(VisitedOf(bucket.features[n])) = 2

(***************************************************************************)
(* C8: every symbol instance has textBoxStartIndex <= textBoxEndIndex <=   *)
(* iconBoxStartIndex <= iconBoxEndIndex <= collisionBoxArray.length; the   *)
(* text range is empty without a horizontal text shape and the icon range  *)
(* without a shaped icon; a text-only Point feature has an empty icon      *)
(* range and the range of its text collision feature as text range.       *)
(***************************************************************************)
C8_OfInstance(inst, f) ==
    /\ 0 <= inst.textBoxStartIndex
    /\ inst.textBoxStartIndex <= inst.textBoxEndIndex
    /\ inst.textBoxEndIndex <= inst.iconBoxStartIndex
    /\ inst.iconBoxStartIndex <= inst.iconBoxEndIndex
    /\ inst.iconBoxEndIndex <= Len(Store)
    /\ ~HasTextShape(f) => inst.textBoxStartIndex = inst.textBoxEndIndex
    /\ ~HasIconShape(f) => inst.iconBoxStartIndex = inst.iconBoxEndIndex
    /\ \A k \in inst.textBoxStartIndex..(inst.textBoxEndIndex - 1) :
          /\ Store[k + 1].shaped = [kind |-> "text", of |-> f.text]
          /\ Store[k + 1].featureIndex = f.index
    /\ \A k \in inst.iconBoxStartIndex..(inst.iconBoxEndIndex - 1) :
          /\ Store[k + 1].shaped = [kind |-> "icon", of |-> f.icon]
          /\ Store[k + 1].featureIndex = f.index
    /\ (HasTextShape(f) /\ ~HasIconShape(f) /\ f.type = "Point" /\ Placement = "point")
          => /\ inst.textBoxStartIndex < inst.textBoxEndIndex
             /\ inst.iconBoxStartIndex = inst.iconBoxEndIndex

C8_BoxRangesOrdered ==
    pc = "features" =>
        \A k \in 1..Len(Instances) :
            C8_OfInstance(Instances[k], bucket.features[Instances[k].featureIndex])

\* a text-only Point feature after a feature with text and icon
C8_Witness ==
    /\ pc = "features"
    /\ Placement = "point"
    /\ \E j, k \in 1..Len(Instances) :
          LET fj == bucket.features[Instances[j].featureIndex]
              fk == bucket.features[Instances[k].featureIndex]
          IN /\ j < k
             /\ HasTextShape(fj) /\ HasIconShape(fj)
             /\ Instances[j].textBoxEndIndex < Instances[j].iconBoxEndIndex
             /\ fk.type = "Point" /\ HasTextShape(fk) /\ ~HasIconShape(fk)

(***************************************************************************)
(* C9: the collision-box store is append-only: no step shortens it or      *)
(* changes an entry it holds, so the ranges of the symbol instances stay   *)
(* inside the store and keep denoting the boxes of their feature; the      *)
(* ranges of successive symbol instances do not overlap and do not         *)
(* decrease in emission order.                                             *)
(***************************************************************************)
C9_StoreStep ==
    /\ Len(bucket'.collisionBoxArray) >= Len(bucket.collisionBoxArray)
    /\ SubSeq(bucket'.collisionBoxArray, 1, Len(bucket.collisionBoxArray))
           = bucket.collisionBoxArray

C9_Ranges ==
    /\ \A k \in 1..Len(Instances) :
          /\ 0 <= Instances[k].textBoxStartIndex
          /\ Instances[k].iconBoxEndIndex <= Len(Store)
          /\ \A n \in Instances[k].textBoxStartIndex..(Instances[k].iconBoxEndIndex - 1) :
                /\ Store[n + 1].featureIndex = Instances[k].featureIndex
                /\ Store[n + 1].anchorX = Instances[k].anchor.x
                /\ Store[n + 1].anchorY = Instances[k].anchor.y
    /\ \A j, k \in 1..Len(Instances) :
          j < k => Instances[j].iconBoxEndIndex <= Instances[k].textBoxStartIndex

C9_StoreAppendOnly == [](C9_Ranges) /\ [][C9_StoreStep]_vars

\* in a second pass the store holds the boxes of the first below those of
\* two symbol instances of the second
C9_Witness ==
    /\ Len(runs) = 1 /\ pc = "features"
    /\ runs[1].boxes > 0
    /\ Len(Instances) >= 2
    /\ Instances[1].textBoxStartIndex = runs[1].boxes
    /\ Instances[2].iconBoxEndIndex > Instances[2].textBoxStartIndex

(***************************************************************************)
(* C10: the compareText map, the iconsNeedLinear flag and the SDF          *)
(* consistency flag bucket.sdfIcons are reset at the start of each         *)
(* performSymbolLayout call, so that nothing an earlier pass wrote is      *)
(* left when the loop over the features begins.                            *)
(***************************************************************************)
PassBegins == pc = "features" /\ i = 1 /\ anchors = <<>> /\ offered = <<>>

C10_AccumulatorsResetAtPassStart ==
    PassBegins => /\ DOMAIN bucket.compareText = {}
                  /\ bucket.iconsNeedLinear = FALSE
                  /\ bucket.sdfIcons = <<>>

(***************************************************************************)
(* C11: warn-and-continue.  When the glyphs written for the bucket exceed  *)
(* SymbolBucket.MAX_GLYPHS, addSymbol raises one warning and nothing else: *)
(* the symbol instance of the anchor is appended with the fields it has    *)
(* below the ceiling, and the anchors and features that follow are         *)
(* processed as they are below it.                                         *)
(***************************************************************************)
GlyphWarnings(log) == CountOf(log, "too-many-glyphs")

\* the fields of the symbol instance of feature f at anchor a, when the
\* store held base boxes before: none of them depends on the glyphs written
C11_InstanceAsBelowCeiling(inst, f, a, base) ==
    /\ inst.key = murmur3(IF HasTextShape(f) THEN f.text ELSE "")
    /\ inst.anchor = a
    /\ inst.featureIndex = f.index
    /\ inst.textBoxStartIndex = base
    /\ inst.iconBoxEndIndex = Len(bucket'.collisionBoxArray)
    /\ inst.numGlyphVertices = IF HasTextShape(f) THEN 4 * NumGlyphs(f.text) ELSE 0
    /\ inst.numVerticalGlyphVertices =
           IF shapedTextOrientations.vertical # <<>> THEN 4 * NumGlyphs(f.text) ELSE 0
    /\ inst.numIconVertices = IF HasIconShape(f) THEN 4 ELSE 0
    /\ Len(inst.placedTextSymbolIndices) =
           Len(shapedTextOrientations.horizontal) + Len(shapedTextOrientations.vertical)
    /\ inst.crossTileID = 0

C11_Step ==
    (pc = "features" /\ anchors # <<>> /\ offered' # offered) =>
        LET f == bucket.features[i]
            a == Head(anchors).anchor
            realized == Len(bucket'.symbolInstances) = Len(Instances) + 1
            raised == GlyphWarnings(warnings') - GlyphWarnings(warnings)
        IN /\ pc' = "features"
           /\ anchors' = Tail(anchors)
           /\ Len(bucket'.symbolInstances) \in {Len(Instances), Len(Instances) + 1}
           /\ SubSeq(bucket'.symbolInstances, 1, Len(Instances)) = Instances
           /\ (InTile(a) /\ branch # "line") => realized
           /\ raised = IF realized /\ bucket'.glyphOffsetArrayLength >= MAX_GLYPHS
                       THEN 1 ELSE 0
           /\ realized => C11_InstanceAsBelowCeiling(
                              bucket'.symbolInstances[Len(Instances) + 1], f, a,
                              Len(Store))

\* every feature the loop has finished has its symbol instances, whatever
\* the number of glyphs written before it
C11_AllProcessed ==
    (pc = "features" /\ Placement = "point") =>
        \A n \in 1..Len(bucket.features) :
            LET f == bucket.features[n]
                all == anchorsOf(branchOf(Placement, f.type), f)
                kept == SelectIdx([k \in 1..Len(all) |-> InTile(all[k].anchor)],
                                  1, Len(all))
            IN (LaidOut(f) /\ (HasTextShape(f) \/ HasIconShape(f))) =>
                   InstanceAnchorsOf(f) = [k \in 1..Len(kept) |-> all[kept[k]].anchor]

C11_GlyphCeilingWarnsAndContinues == [](C11_AllProcessed) /\ [][C11_Step]_vars

\* in a first pass the ceiling is exceeded, two warnings or more were raised,
\* and the last symbol instance belongs to a feature after the long label's
C11_Witness ==
    /\ pc = "features" /\ runs = <<>>
    /\ bucket.glyphOffsetArrayLength > MAX_GLYPHS
    /\ GlyphWarnings(warnings) >= 2
    /\ Len(Instances) >= 4
    /\ bucket.features[Instances[Len(Instances)].featureIndex].text # TextLong
    /\ bucket.features[Instances[1].featureIndex].text = TextLong

(***************************************************************************)
(* C12: at the end of a pass bucket.iconsNeedLinear is true if and only if *)
(* some feature of the pass with an icon present in the image map has an   *)
(* icon whose pixelRatio differs from the bucket's or whose rotation is    *)
(* non-zero; the flag starts false, is never set back to false during the  *)
(* pass, and a feature without an atlas-present icon does not set it.      *)
(* As claimed, with the rotation the layer's icon-rotate evaluates to for  *)
(* the feature: C12_LinearIffRatioOrRotation.  As amended, with an         *)
(* icon-rotate that is not the constant 0, a data-driven icon-rotate       *)
(* counting as non-zero whatever it evaluates to:                          *)
(* C12_LinearIffRatioOrRotateNotConstantZero.                              *)
(***************************************************************************)
\* layer.layout.get('icon-rotate').evaluate(feature, {}), line 384
evaluateRotate(rotate, feature) == rotate.value

RatioDiffers(f) == imageMap[f.icon].pixelRatio # bucket.pixelRatio

\* the features whose icon the loop has looked at
IconSeen(f) == HasIconShape(f) /\ (Reached(f) \/ (pc = "idle" /\ runs # <<>>))

C12_LinearIffRatioOrRotation ==
    (pc = "idle" /\ runs # <<>>) =>
        (bucket.iconsNeedLinear <=>
            \E n \in 1..Len(bucket.features) :
                LET f == bucket.features[n]
                IN /\ HasIconShape(f)
                   /\ (RatioDiffers(f) \/ evaluateRotate(bucket.layout.iconRotate, f) # 0))

C12_FlagIsDisjunction ==
    (pc = "features" \/ runs # <<>>) =>
        (bucket.iconsNeedLinear <=>
            \E n \in 1..Len(bucket.features) :
                LET f == bucket.features[n]
                IN /\ IconSeen(f)
                   /\ \/ RatioDiffers(f)
                      \/ ~bucket.layout.iconRotate.isConstant
                      \/ bucket.layout.iconRotate.value # 0)

C12_FlagStep ==
    /\ (pc = "features" /\ bucket.iconsNeedLinear) => bucket'.iconsNeedLinear
    /\ (pc = "idle" /\ pc' = "features") => ~bucket'.iconsNeedLinear
    /\ (pc = "features" /\ i' # i /\ i <= Len(bucket.features)
            /\ ~HasIconShape(bucket.features[i]))
         => bucket'.iconsNeedLinear = bucket.iconsNeedLinear

C12_LinearIffRatioOrRotateNotConstantZero ==
    [](C12_FlagIsDisjunction) /\ [][C12_FlagStep]_vars

\* a pass has ended with the flag set by a data-driven icon-rotate alone:
\* every icon has the bucket's resolution
C12_Witness ==
    /\ pc = "idle" /\ runs # <<>>
    /\ bucket.iconsNeedLinear
    /\ ~bucket.layout.iconRotate.isConstant
    /\ \E n \in 1..Len(bucket.features) : HasIconShape(bucket.features[n])
    /\ \A n \in 1..Len(bucket.features) :
          HasIconShape(bucket.features[n]) => ~RatioDiffers(bucket.features[n])

(***************************************************************************)
(* C13: in a text-pass call of drawCollisionDebug the batches are those of *)
(* the tiles with a bucket and a non-empty circle array, in visit order;   *)
(* a batch's circleOffset is the number of circles of the batches before   *)
(* it; the vertex buffer holds four vertices per circle, circle c of batch *)
(* j at vertices 4 * (circleOffset_j + c) and the three after; the draw    *)
(* call of batch j addresses the triangles from 2 * circleOffset_j up to   *)
(* 2 * circleOffset_j + 2 * n_j, which reference that batch's vertices, so *)
(* the ranges are disjoint and cover all circleCount circles.              *)
(***************************************************************************)
CirclesOf(batch) == Len(batch.circleArray) \div 4

RECURSIVE CirclesBefore(_, _)
CirclesBefore(batches, j) ==
    IF j <= 1 THEN 0 ELSE CirclesBefore(batches, j - 1) + CirclesOf(batches[j - 1])

\* the places in coords of the tiles that have circles
WithCircles(coords) ==
    SelectIdx([k \in 1..Len(coords) |->
                  /\ coords[k].bucket # <<>>
                  /\ coords[k].bucket[1].collisionCircleArray # <<>>],
              1, Len(coords))

Rendered == dpc = "idle" /\ frame.isText /\ frame.tileBatches # <<>>

\* the vertices the triangles of a draw call reference
VerticesDrawn(segment) ==
    { segment.vertexOffset + quadTriangles[1].uint32[t * IndicesPerTriangle + n] :
        t \in segment.primitiveOffset..(segment.primitiveOffset + segment.primitiveLength - 1),
        n \in 1..IndicesPerTriangle }

C13_Batches ==
    LET batches == frame.tileBatches
        from == WithCircles(frame.coords)
    IN /\ Len(batches) = Len(from)
       /\ frame.circleCount = CirclesBefore(batches, Len(batches) + 1)
       /\ \A j \in 1..Len(batches) :
             /\ batches[j].circleArray = frame.coords[from[j]].bucket[1].collisionCircleArray
             /\ batches[j].projection = frame.coords[from[j]].id
             /\ batches[j].circleOffset = CirclesBefore(batches, j)

C13_Circles ==
    LET batches == frame.tileBatches
    IN /\ Len(frame.vertexData) = 4 * frame.circleCount
       /\ Len(frame.circleDraws) = Len(batches)
       /\ \A j \in 1..Len(batches) :
             LET off == batches[j].circleOffset
                 n == CirclesOf(batches[j])
                 seg == frame.circleDraws[j].segment
             IN /\ \A c \in 0..(n - 1), corner \in 0..3 :
                       frame.vertexData[4 * (off + c) + corner + 1] =
                           [x |-> batches[j].circleArray[4 * c + 1],
                            y |-> batches[j].circleArray[4 * c + 2],
                            radius |-> batches[j].circleArray[4 * c + 3],
                            collision |-> batches[j].circleArray[4 * c + 4],
                            corner |-> corner]
                /\ frame.circleDraws[j].transform = batches[j].transform
                /\ frame.circleDraws[j].invTransform = batches[j].invTransform
                /\ seg.primitiveOffset = 2 * off
                /\ seg.primitiveLength = 2 * n
                /\ seg.primitiveOffset + seg.primitiveLength <= quadTriangles[1].length
                /\ VerticesDrawn(seg) = (4 * off)..(4 * (off + n) - 1)
                /\ j < Len(batches) =>
                       frame.circleDraws[j + 1].segment.primitiveOffset
                           = seg.primitiveOffset + seg.primitiveLength
                /\ j = Len(batches) =>
                       seg.primitiveOffset + seg.primitiveLength = 2 * frame.circleCount

C13_BatchesPartitionTheCircles ==
    /\ C13_Batches
    /\ Rendered => C13_Circles

\* two batches of two and one circle around a tile without circles, drawn
\* with a quad index array left by a frame of more circles
C13_Witness ==
    /\ Rendered
    /\ Len(frame.coords) = 3
    /\ Len(frame.tileBatches) = 2
    /\ frame.tileBatches[2].circleOffset = 2
    /\ frame.circleCount = 3
    /\ frame.circleDraws # <<>>
    /\ quadTriangles[1].length > 2 * frame.circleCount

(***************************************************************************)
(* C14: across any sequence of drawCollisionDebug calls the shared quad    *)
(* index array quadTriangles is rebuilt only when it is absent or holds    *)
(* fewer than 2 * circleCount triangles, and is otherwise reused           *)
(* unchanged; whenever circles are drawn it holds at least 2 * circleCount *)
(* triangles, quad q being indexed as (4q, 4q+1, 4q+2) and (4q+2, 4q+3,    *)
(* 4q); every write of createQuadTriangles lies inside the array's         *)
(* allocated size; its length never decreases from frame to frame.         *)
(***************************************************************************)
QuadLength(shared) == IF shared = <<>> THEN 0 ELSE shared[1].length

C14_ReuseStep ==
    /\ quadTriangles' # quadTriangles =>
           /\ dpc = "circles"
           /\ quadTriangles = <<>> \/ quadTriangles[1].length < 2 * frame.circleCount
    /\ QuadLength(quadTriangles') >= QuadLength(quadTriangles)
    /\ quadTriangles # <<>> => quadTriangles' # <<>>

C14_Indexed ==
    /\ Rendered => QuadLength(quadTriangles) >= 2 * frame.circleCount
    /\ quadTriangles # <<>> =>
          /\ Len(quadTriangles[1].uint32) = IndicesPerTriangle * quadTriangles[1].length
          /\ \A q \in 0..(quadTriangles[1].length \div 2 - 1) :
                SubSeq(quadTriangles[1].uint32, 6 * q + 1, 6 * q + 6) =
                    <<4 * q, 4 * q + 1, 4 * q + 2, 4 * q + 2, 4 * q + 3, 4 * q>>

C14_WritesInside ==
    \A n \in 1..Len(frame.quadWrites) :
        /\ frame.quadWrites[n] >= 0
        /\ frame.quadWrites[n] < Len(quadTriangles[1].uint32)

\* the claim without its sentence on the writes
C14_RebuiltOnlyWhenTooSmall == [](C14_Indexed) /\ [][C14_ReuseStep]_vars

C14_QuadTrianglesReusedAndWrittenInside ==
    [](C14_Indexed /\ C14_WritesInside) /\ [][C14_ReuseStep]_vars

(***************************************************************************)
(* C15: under symbol-placement 'line' an anchor is dropped by duplicate    *)
(* suppression only if an anchor of the same horizontal text, passed by    *)
(* the repeat test earlier in the pass, lies closer than                   *)
(* textRepeatDistance, and an anchor the suppression rejects is never      *)
(* stored in bucket.compareText.                                           *)
(* As claimed, every anchor stored in bucket.compareText is the anchor of  *)
(* a symbol instance: C15_StoredAnchorsAreInstances.  As amended, every    *)
(* stored anchor is the anchor of a symbol instance or an anchor outside   *)
(* the tile, which the repeat test passed and stored before the            *)
(* tile-bounds filter rejected it, and which suppresses later anchors      *)
(* like any other: C15_StoredAnchorsPassedTheRepeatTest.                   *)
(***************************************************************************)
StoredOf(compareText, text) ==
    IF text \in DOMAIN compareText THEN compareText[text] ELSE <<>>

IsInstanceAnchor(a, text) ==
    \E n \in 1..Len(Instances) :
        Instances[n].anchor = a /\ Instances[n].key = murmur3(text)

C15_StoredAnchorsAreInstances ==
    (pc = "features" /\ Placement = "line") =>
        \A text \in DOMAIN bucket.compareText :
            \A k \in 1..Len(bucket.compareText[text]) :
                IsInstanceAnchor(bucket.compareText[text][k], text)

C15_Stored ==
    (pc = "features" /\ Placement = "line") =>
        \A text \in DOMAIN bucket.compareText :
            LET stored == bucket.compareText[text]
            IN \A k \in 1..Len(stored) :
                  /\ InTile(stored[k]) <=> IsInstanceAnchor(stored[k], text)
                  /\ \E n \in 1..Len(offered) : offered[n].anchor = stored[k]
                  /\ \A m \in 1..(k - 1) :
                        ~DistLessThanHalf(stored[k], stored[m], symbolMinDistanceOf(bucket))

C15_Step ==
    (pc = "features" /\ anchors # <<>> /\ offered' # offered /\ branch = "line"
        /\ shapedTextOrientations.horizontal # <<>>) =>
        LET a == Head(anchors).anchor
            text == shapedTextOrientations.horizontal[1].text
            old == StoredOf(bucket.compareText, text)
            close == \E k \in 1..Len(old) :
                        DistLessThanHalf(a, old[k], symbolMinDistanceOf(bucket))
            realized == Len(bucket'.symbolInstances) = Len(Instances) + 1
        IN /\ close => /\ bucket'.compareText = bucket.compareText
                       /\ bucket'.symbolInstances = Instances
           /\ ~close => /\ StoredOf(bucket'.compareText, text) = Append(old, a)
                        /\ realized <=> InTile(a)
           /\ \A other \in DOMAIN bucket.compareText \ {text} :
                 bucket'.compareText[other] = bucket.compareText[other]

C15_StoredAnchorsPassedTheRepeatTest == [](C15_Stored) /\ [][C15_Step]_vars

\* an anchor inside the tile was dropped by suppression although no symbol
\* instance of its text is near: the stored anchor near it lies outside the
\* tile
C15_Witness ==
    /\ pc = "features" /\ Placement = "line"
    /\ \E n \in 1..Len(offered) :
          LET a == offered[n].anchor
              f == bucket.features[offered[n].featureIndex]
              stored == StoredOf(bucket.compareText, f.text)
          IN /\ HasTextShape(f)
             /\ InTile(a)
             /\ ~IsInstanceAnchor(a, f.text)
             /\ \A m \in 1..Len(Instances) :
                   Instances[m].key = murmur3(f.text) =>
                       ~DistLessThanHalf(a, Instances[m].anchor, symbolMinDistanceOf(bucket))
             /\ \E k \in 1..Len(stored) :
                   /\ ~InTile(stored[k])
                   /\ DistLessThanHalf(a, stored[k], symbolMinDistanceOf(bucket))

====
